---- MODULE Spec2Model ----
(***************************************************************************)
(* Model of torchvision/datasets/caltech.py: the Caltech101 and Caltech256 *)
(* dataset classes.  The state is the dataset root directory on disk, the  *)
(* dataset object (its attributes as assigned by __init__), the filesystem *)
(* calls made by the last operation and the outcome of the last operation. *)
(* The caller-supplied transform and target_transform are left at their    *)
(* default None.  The directory 101_ObjectCategories / 256_ObjectCategories*)
(* holds sub-directories only, as the published archives do.               *)
(***************************************************************************)
EXTENDS Integers, Sequences, FiniteSets, TLC

VARIABLES cls, fs, obj, calls, ret

vars == <<cls, fs, obj, calls, ret>>

-----------------------------------------------------------------------------
(* Bounds of the model *)

\* largest number of '.jpg' entries of one category directory
MaxFiles == 2

\* longest target_type list passed to Caltech101
MaxTargets == 2

-----------------------------------------------------------------------------
(* Strings: category names are compared by code point, as Python's sorted() *)

Sentinel == "BACKGROUND_Google"

CountNames == {Sentinel, "a", "b"}

RemapNames == {Sentinel, "Faces", "Faces_easy", "Motorbikes", "a", "airplanes", "b"}

Chars(s) ==
  CASE s = "BACKGROUND_Google" ->
         <<66, 65, 67, 75, 71, 82, 79, 85, 78, 68, 95, 71, 111, 111, 103, 108, 101>>
    [] s = "Faces"      -> <<70, 97, 99, 101, 115>>
    [] s = "Faces_easy" -> <<70, 97, 99, 101, 115, 95, 101, 97, 115, 121>>
    [] s = "Motorbikes" -> <<77, 111, 116, 111, 114, 98, 105, 107, 101, 115>>
    [] s = "a"          -> <<97>>
    [] s = "airplanes"  -> <<97, 105, 114, 112, 108, 97, 110, 101, 115>>
    [] s = "b"          -> <<98>>

RECURSIVE SeqLess(_, _)
SeqLess(u, v) ==
  IF v = <<>> THEN FALSE
  ELSE IF u = <<>> THEN TRUE
  ELSE IF Head(u) # Head(v) THEN Head(u) < Head(v)
  ELSE SeqLess(Tail(u), Tail(v))

StrLess(s, t) == SeqLess(Chars(s), Chars(t))

MinName(S) == CHOOSE m \in S : \A n \in S \ {m} : StrLess(m, n)

\* sorted(os.listdir(...)): the names of the listing in ascending order
RECURSIVE sorted(_)
sorted(S) ==
  IF S = {} THEN <<>>
  ELSE <<MinName(S)>> \o sorted(S \ {MinName(S)})

\* list.remove(x): the list without the first occurrence of x; the caller
\* checks membership (list.remove raises ValueError when x is not in the list)
RECURSIVE list_remove(_, _)
list_remove(l, x) ==
  IF l = <<>> THEN <<>>
  ELSE IF Head(l) = x THEN Tail(l)
  ELSE <<Head(l)>> \o list_remove(Tail(l), x)

Contains(l, x) == \E k \in DOMAIN l : l[k] = x

\* range(n): ordinals starting at 0
range0(n) == [k \in 1..n |-> k - 1]

\* range(1, n + 1) as a list
range1(n) == [k \in 1..n |-> k]

\* n * [i]
repeat(n, i) == [k \in 1..n |-> i]

RECURSIVE Digits(_)
Digits(n) == IF n < 10 THEN <<n>> ELSE Digits(n \div 10) \o <<n % 10>>

\* the format spec 0<w>d: decimal digits, zero-padded to at least w digits
RECURSIVE ZeroPad(_, _)
ZeroPad(d, w) == IF Len(d) >= w THEN d ELSE ZeroPad(<<0>> \o d, w)

Fmt(n, w) == ZeroPad(Digits(n), w)

\* indexing that rejects negative positions
PyPosNonNegative(l, i) == IF 0 <= i /\ i < Len(l) THEN i + 1 ELSE 0

\* Python list indexing l[i]: the 1-based position read, 0 for IndexError
PyPos(l, i) ==
  IF 0 <= i /\ i < Len(l) THEN i + 1
  ELSE IF i < 0 /\ -Len(l) <= i THEN Len(l) + i + 1
  ELSE 0

-----------------------------------------------------------------------------
(* The dataset root on disk *)

NoDirs == [n \in {} |-> [jpg |-> 0, other |-> 0]]

\* a category directory holds jpg entries ending in '.jpg' and other entries
Entries == [jpg : 0..MaxFiles, other : 0..1]

OneImage == [jpg : {1}, other : {0}]

LayoutsOver(names, entries) ==
  UNION {[S -> entries] : S \in SUBSET names}

Layouts == LayoutsOver(CountNames, Entries) \cup LayoutsOver(RemapNames, OneImage)

\* root: self.root exists; img: the top-level image directory and its
\* category directories; ann: Annotations exists; zip: the downloaded archive
\* file; folder: the unpacked caltech-101 folder
Disk(root, exists, dirs, ann, zip, folder) ==
  [root |-> root, img |-> [exists |-> exists, dirs |-> dirs],
   ann |-> ann, zip |-> zip, folder |-> folder]

\* the content of the published archive
ArchiveDirs ==
  [n \in CountNames |->
     IF n = Sentinel THEN [jpg |-> 1, other |-> 0]
     ELSE IF n = "a" THEN [jpg |-> 2, other |-> 0]
     ELSE [jpg |-> 1, other |-> 1]]

\* what the download utility meets: the network fails, the archive unpacks
\* to the expected layout (with or without a __MACOSX folder), or it unpacks
\* without the expected top-level image directory
ArchiveOutcomes == {"neterr", "ok", "ok_macos", "nodir"}

-----------------------------------------------------------------------------
(* The dataset object *)

Kinds == {"category", "annotation"}

KindInputs == Kinds \cup {"segmentation"}

RECURSIVE ListsUpTo(_, _)
ListsUpTo(S, n) ==
  IF n = 0 THEN {<<>>}
  ELSE LET shorter == ListsUpTo(S, n - 1)
       IN shorter \cup {Append(l, x) : l \in {m \in shorter : Len(m) = n - 1}, x \in S}

\* target_type as passed: a string, or a list of strings
TargetTypeInputs ==
  [str : {TRUE}, s : KindInputs, l : {<<>>}]
    \cup [str : {FALSE}, s : {""}, l : ListsUpTo(KindInputs, MaxTargets)]

NoObj ==
  [status |-> "none", attrs |-> {}, target_type |-> <<>>, categories |-> <<>>,
   annotation_categories |-> <<>>, index |-> <<>>, y |-> <<>>]

NoPath == <<>>

NoTarget == [tuple |-> FALSE, items |-> <<>>]

\* the outcome of an operation: kind is "ok" or the exception raised, line
\* the source line raising it; for __init__, target_type and download are
\* the arguments it was called with (target_type as the list of line 52)
Outcome(op, arg, kind, line, img, target, value) ==
  [op |-> op, arg |-> arg, kind |-> kind, line |-> line, img |-> img,
   target |-> target, value |-> value, target_type |-> <<>>, download |-> FALSE]

Raised(op, arg, kind, line) == Outcome(op, arg, kind, line, NoPath, NoTarget, 0)

Called(r, target_type, download) ==
  [r EXCEPT !.target_type = target_type, !.download = download]

-----------------------------------------------------------------------------
(* Caltech101 *)

\* an integrity check satisfied by the dataset root alone
Caltech101_check_root(f) == f.root

Caltech101_check_integrity(f) == f.img.exists

\* download(): the new disk, the filesystem calls made, and whether the
\* download utility raised
Caltech101_download(f, arc) ==
  IF Caltech101_check_integrity(f)
  THEN [fs |-> f, calls |-> <<>>, raised |-> FALSE]
  ELSE IF arc = "neterr"
  THEN [fs |-> f, calls |-> <<"download_and_extract_archive">>, raised |-> TRUE]
  ELSE LET f1 == [f EXCEPT !.root = TRUE, !.zip = TRUE, !.folder = TRUE]
           macos == IF arc = "ok_macos" THEN <<"rmtree">> ELSE <<>>
           f2 == [f1 EXCEPT !.img = IF arc = "nodir" THEN f1.img
                                    ELSE [exists |-> TRUE, dirs |-> ArchiveDirs]]
           f3 == [f2 EXCEPT !.ann = TRUE]
           f4 == [f3 EXCEPT !.folder = FALSE]
           f5 == [f4 EXCEPT !.zip = FALSE]
       IN [fs |-> f5,
           calls |-> <<"download_and_extract_archive">> \o macos
                       \o <<"extract_archive", "extract_archive", "rmtree", "remove">>,
           raised |-> FALSE]

\* annotation folders named as the image folders
name_map_identity(x) == x

name_map(x) ==
  CASE x = "Faces"      -> "Faces_2"
    [] x = "Faces_easy" -> "Faces_3"
    [] x = "Motorbikes" -> "Motorbikes_16"
    [] x = "airplanes"  -> "Airplanes_Side_2"
    [] OTHER            -> x

\* the loop of lines 77-80: index and y extended category by category
RECURSIVE Caltech101_build(_, _, _, _, _)
Caltech101_build(f, cats, i, index, y) ==
  IF i > Len(cats) THEN [index |-> index, y |-> y]
  ELSE LET c == cats[i]
           n == f.img.dirs[c].jpg + f.img.dirs[c].other
       IN Caltech101_build(f, cats, i + 1, index \o range1(n), y \o repeat(n, i - 1))

\* a validator that accepts every value
verify_str_arg_any(t) == TRUE

verify_str_arg(t) == t \in {"category", "annotation"}

Caltech101__init__(f, tt, download, arc) ==
  LET f1 == [f EXCEPT !.root = TRUE]
      c1 == <<"makedirs">>
      target_type == IF tt.str THEN <<tt.s>> ELSE tt.l
      o1 == [NoObj EXCEPT !.status = "failed"]
  IN IF \E k \in DOMAIN target_type : ~verify_str_arg(target_type[k])
     THEN [fs |-> f1, obj |-> o1, calls |-> c1,
           ret |-> Raised("init", 0, "ValueError", 53)]
     ELSE
     LET o2 == [o1 EXCEPT !.target_type = target_type, !.attrs = {"target_type"}]
         d == IF download THEN Caltech101_download(f1, arc)
              ELSE [fs |-> f1, calls |-> <<>>, raised |-> FALSE]
         f2 == d.fs
         c2 == c1 \o d.calls
     IN IF d.raised
        THEN [fs |-> f2, obj |-> o2, calls |-> c2,
              ret |-> Raised("init", 0, "URLError", 56)]
        ELSE IF ~Caltech101_check_integrity(f2)
        THEN [fs |-> f2, obj |-> o2, calls |-> c2,
              ret |-> Raised("init", 0, "RuntimeError", 59)]
        ELSE
        LET listing == sorted(DOMAIN f2.img.dirs)
            c3 == Append(c2, "listdir")
            o3 == [o2 EXCEPT !.categories = listing,
                             !.attrs = @ \cup {"categories"}]
        IN IF ~Contains(listing, Sentinel)
           THEN [fs |-> f2, obj |-> o3, calls |-> c3,
                 ret |-> Raised("init", 0, "ValueError", 62)]
           ELSE
           LET categories == list_remove(listing, Sentinel)
               built == Caltech101_build(f2, categories, 1, <<>>, <<>>)
               o4 == [o3 EXCEPT
                        !.status = "ok",
                        !.categories = categories,
                        !.annotation_categories =
                           [k \in DOMAIN categories |-> name_map(categories[k])],
                        !.index = built.index,
                        !.y = built.y,
                        !.attrs = @ \cup {"annotation_categories", "index", "y"}]
           IN [fs |-> f2, obj |-> o4,
               calls |-> c3 \o [k \in DOMAIN categories |-> "listdir"],
               ret |-> Outcome("init", 0, "ok", 0, NoPath, NoTarget, 0)]

\* a target that is a tuple whatever the number of values
MakeTargetTuple(items) == [tuple |-> TRUE, items |-> items]

\* the target of line 115: a tuple of the collected values when there is
\* more than one, else the single value target[0]
MakeTarget(items) == [tuple |-> Len(items) > 1, items |-> items]

Caltech101__getitem__(o, index, io) ==
  LET p == PyPos(o.y, index)
  IN IF p = 0 THEN Raised("getitem", index, "IndexError", 96)
     ELSE
     LET yi == o.y[p]
         ordinal == o.index[PyPos(o.index, index)]
         img == <<"101_ObjectCategories", o.categories[PyPos(o.categories, yi)],
                  "image_", Fmt(ordinal, 4), ".jpg">>
         ann == <<"Annotations",
                  o.annotation_categories[PyPos(o.annotation_categories, yi)],
                  "annotation_", Fmt(ordinal, 4), ".mat">>
         items == [k \in DOMAIN o.target_type |->
                     IF o.target_type[k] = "category"
                     THEN [kind |-> "category", y |-> yi, path |-> NoPath]
                     ELSE [kind |-> "annotation", y |-> yi, path |-> ann]]
     IN IF io = "fail" THEN Raised("getitem", index, "FileNotFoundError", 92)
        ELSE IF Len(items) = 0 THEN Raised("getitem", index, "IndexError", 115)
        ELSE Outcome("getitem", index, "ok", 0, img, MakeTarget(items), 0)

Caltech101__len__(o) == Len(o.index)

-----------------------------------------------------------------------------
(* Caltech256 *)

Caltech256_check_integrity(f) == f.img.exists

\* a download that does not look for the directory first
Caltech256_download_always(f, arc) ==
  IF arc = "neterr"
  THEN [fs |-> f, calls |-> <<"download_and_extract_archive">>, raised |-> TRUE]
  ELSE LET f1 == [f EXCEPT !.root = TRUE, !.zip = TRUE]
           f2 == [f1 EXCEPT !.img = IF arc = "nodir" THEN f1.img
                                    ELSE [exists |-> TRUE, dirs |-> ArchiveDirs]]
       IN [fs |-> f2, calls |-> <<"download_and_extract_archive">>, raised |-> FALSE]

Caltech256_download(f, arc) ==
  IF Caltech256_check_integrity(f)
  THEN [fs |-> f, calls |-> <<>>, raised |-> FALSE]
  ELSE IF arc = "neterr"
  THEN [fs |-> f, calls |-> <<"download_and_extract_archive">>, raised |-> TRUE]
  ELSE LET f1 == [f EXCEPT !.root = TRUE, !.zip = TRUE]
           f2 == [f1 EXCEPT !.img = IF arc = "nodir" THEN f1.img
                                    ELSE [exists |-> TRUE, dirs |-> ArchiveDirs]]
       IN [fs |-> f2, calls |-> <<"download_and_extract_archive">>, raised |-> FALSE]

\* the loop counting every directory entry, as Caltech101 does
RECURSIVE Caltech256_build_all(_, _, _, _, _)
Caltech256_build_all(f, cats, i, index, y) ==
  IF i > Len(cats) THEN [index |-> index, y |-> y]
  ELSE LET c == cats[i]
           n == f.img.dirs[c].jpg + f.img.dirs[c].other
       IN Caltech256_build_all(f, cats, i + 1, index \o range1(n), y \o repeat(n, i - 1))

\* the loop of lines 204-213: only the entries ending in '.jpg' are counted
RECURSIVE Caltech256_build(_, _, _, _, _)
Caltech256_build(f, cats, i, index, y) ==
  IF i > Len(cats) THEN [index |-> index, y |-> y]
  ELSE LET c == cats[i]
           n == f.img.dirs[c].jpg
       IN Caltech256_build(f, cats, i + 1, index \o range1(n), y \o repeat(n, i - 1))

Caltech256__init__(f, download, arc) ==
  LET f1 == [f EXCEPT !.root = TRUE]
      c1 == <<"makedirs">>
      o1 == [NoObj EXCEPT !.status = "failed"]
      d == IF download THEN Caltech256_download(f1, arc)
           ELSE [fs |-> f1, calls |-> <<>>, raised |-> FALSE]
      f2 == d.fs
      c2 == c1 \o d.calls
  IN IF d.raised
     THEN [fs |-> f2, obj |-> o1, calls |-> c2,
           ret |-> Raised("init", 0, "URLError", 196)]
     ELSE IF ~Caltech256_check_integrity(f2)
     THEN [fs |-> f2, obj |-> o1, calls |-> c2,
           ret |-> Raised("init", 0, "RuntimeError", 199)]
     ELSE
     LET categories == sorted(DOMAIN f2.img.dirs)
         built == Caltech256_build(f2, categories, 1, <<>>, <<>>)
         o2 == [o1 EXCEPT !.status = "ok",
                          !.categories = categories,
                          !.index = built.index,
                          !.y = built.y,
                          !.attrs = {"categories", "index", "y"}]
     IN [fs |-> f2, obj |-> o2,
         calls |-> c2 \o <<"listdir">> \o [k \in DOMAIN categories |-> "listdir"],
         ret |-> Outcome("init", 0, "ok", 0, NoPath, NoTarget, 0)]

Caltech256__getitem__(o, index, io) ==
  LET p == PyPos(o.y, index)
  IN IF p = 0 THEN Raised("getitem", index, "IndexError", 227)
     ELSE
     LET yi == o.y[p]
         ordinal == o.index[PyPos(o.index, index)]
         img == <<"256_ObjectCategories", o.categories[PyPos(o.categories, yi)],
                  Fmt(yi + 1, 3), "_", Fmt(ordinal, 4), ".jpg">>
         target == [tuple |-> FALSE,
                    items |-> <<[kind |-> "category", y |-> yi, path |-> NoPath]>>]
     IN IF io = "fail" THEN Raised("getitem", index, "FileNotFoundError", 223)
        ELSE Outcome("getitem", index, "ok", 0, img, target, 0)

Caltech256__len__(o) == Len(o.index)

-----------------------------------------------------------------------------
(* The state machine *)

Init ==
  /\ cls \in {"Caltech101", "Caltech256"}
  /\ fs \in {Disk(r, FALSE, NoDirs, FALSE, FALSE, FALSE) : r \in BOOLEAN}
              \cup {Disk(TRUE, TRUE, d, TRUE, FALSE, FALSE) : d \in Layouts}
  /\ obj = NoObj
  /\ calls = <<>>
  /\ ret = Raised("none", 0, "ok", 0)

Indices == -(Len(obj.y) + 1) .. Len(obj.y)

Construct101 ==
  /\ cls = "Caltech101"
  /\ obj.status = "none"
  /\ \E tt \in TargetTypeInputs, download \in BOOLEAN, arc \in ArchiveOutcomes :
       LET r == Caltech101__init__(fs, tt, download, arc)
       IN /\ fs' = r.fs
          /\ obj' = r.obj
          /\ calls' = r.calls
          /\ ret' = Called(r.ret, IF tt.str THEN <<tt.s>> ELSE tt.l, download)
  /\ UNCHANGED cls

Construct256 ==
  /\ cls = "Caltech256"
  /\ obj.status = "none"
  /\ \E download \in BOOLEAN, arc \in ArchiveOutcomes :
       LET r == Caltech256__init__(fs, download, arc)
       IN /\ fs' = r.fs
          /\ obj' = r.obj
          /\ calls' = r.calls
          /\ ret' = Called(r.ret, <<>>, download)
  /\ UNCHANGED cls

GetItem101 ==
  /\ cls = "Caltech101"
  /\ obj.status = "ok"
  /\ \E i \in Indices, io \in {"ok", "fail"} :
       ret' = Caltech101__getitem__(obj, i, io)
  /\ calls' = <<>>
  /\ UNCHANGED <<cls, fs, obj>>

GetItem256 ==
  /\ cls = "Caltech256"
  /\ obj.status = "ok"
  /\ \E i \in Indices, io \in {"ok", "fail"} :
       ret' = Caltech256__getitem__(obj, i, io)
  /\ calls' = <<>>
  /\ UNCHANGED <<cls, fs, obj>>

Len101 ==
  /\ cls = "Caltech101"
  /\ obj.status = "ok"
  /\ ret' = Outcome("len", 0, "ok", 0, NoPath, NoTarget, Caltech101__len__(obj))
  /\ calls' = <<>>
  /\ UNCHANGED <<cls, fs, obj>>

Len256 ==
  /\ cls = "Caltech256"
  /\ obj.status = "ok"
  /\ ret' = Outcome("len", 0, "ok", 0, NoPath, NoTarget, Caltech256__len__(obj))
  /\ calls' = <<>>
  /\ UNCHANGED <<cls, fs, obj>>

\* a download that rebuilds the sample index from nothing
Download101_reindex ==
  /\ cls = "Caltech101"
  /\ obj.status = "ok"
  /\ \E arc \in ArchiveOutcomes :
       LET d == Caltech101_download(fs, arc)
       IN /\ fs' = d.fs
          /\ calls' = d.calls
          /\ ret' = Raised("download", 0, IF d.raised THEN "URLError" ELSE "ok",
                           IF d.raised THEN 136 ELSE 0)
  /\ obj' = [obj EXCEPT !.index = <<>>, !.y = <<>>]
  /\ UNCHANGED cls

Download101 ==
  /\ cls = "Caltech101"
  /\ obj.status = "ok"
  /\ \E arc \in ArchiveOutcomes :
       LET d == Caltech101_download(fs, arc)
       IN /\ fs' = d.fs
          /\ calls' = d.calls
          /\ ret' = Raised("download", 0, IF d.raised THEN "URLError" ELSE "ok",
                           IF d.raised THEN 136 ELSE 0)
  /\ UNCHANGED <<cls, obj>>

Download256 ==
  /\ cls = "Caltech256"
  /\ obj.status = "ok"
  /\ \E arc \in ArchiveOutcomes :
       LET d == Caltech256_download(fs, arc)
       IN /\ fs' = d.fs
          /\ calls' = d.calls
          /\ ret' = Raised("download", 0, IF d.raised THEN "URLError" ELSE "ok",
                           IF d.raised THEN 252 ELSE 0)
  /\ UNCHANGED <<cls, obj>>

Next ==
  \/ Construct101
  \/ Construct256
  \/ GetItem101
  \/ GetItem256
  \/ Len101
  \/ Len256
  \/ Download101
  \/ Download256

Spec == Init /\ [][Next]_vars

-----------------------------------------------------------------------------
(* Properties *)

IsOk == obj.status = "ok"

\* the number of samples the directory of category c contributes
FileCount(c) ==
  IF cls = "Caltech101" THEN fs.img.dirs[c].jpg + fs.img.dirs[c].other
  ELSE fs.img.dirs[c].jpg

\* the categories the dataset retains
Retained ==
  IF cls = "Caltech101" THEN DOMAIN fs.img.dirs \ {Sentinel} ELSE DOMAIN fs.img.dirs

RECURSIVE SumCounts(_)
SumCounts(S) ==
  IF S = {} THEN 0
  ELSE LET c == CHOOSE x \in S : TRUE IN FileCount(c) + SumCounts(S \ {c})

RECURSIVE CountBefore(_, _)
CountBefore(cats, k) ==
  IF k <= 1 THEN 0 ELSE CountBefore(cats, k - 1) + FileCount(cats[k - 1])

DatasetLen ==
  IF cls = "Caltech101" THEN Caltech101__len__(obj) ELSE Caltech256__len__(obj)

\* the position of the sample a valid Python index i addresses
Position(i) == IF i >= 0 THEN i + 1 ELSE Len(obj.y) + i + 1

\* C1: for every constructed dataset, __len__ is the sum over the retained
\* categories of the per-category file count (all entries for Caltech101,
\* the '.jpg' entries for Caltech256), and equals len(index) and len(y)
C1_LenIsSumOfCounts ==
  IsOk =>
    /\ DatasetLen = SumCounts(Retained)
    /\ Len(obj.index) = DatasetLen
    /\ Len(obj.y) = DatasetLen
    /\ ret.op = "len" => ret.value = SumCounts(Retained)

C1_Witness ==
  /\ cls = "Caltech256"
  /\ IsOk
  /\ ret.op = "len"
  /\ ret.value = 3
  /\ \E c \in DOMAIN fs.img.dirs : fs.img.dirs[c].other = 1 /\ fs.img.dirs[c].jpg = 2
  /\ Cardinality(DOMAIN fs.img.dirs) = 2

\* C2: the sample index is laid out in blocks in sorted category order: the
\* category at position k of the sorted category list with n files owns n
\* consecutive positions with y = k and index = 1..n; y is within the
\* category range and non-decreasing
C2_BlocksInSortedOrder ==
  IsOk =>
    LET cats == obj.categories
        N == Len(obj.y)
    IN /\ Len(obj.index) = N
       /\ N = SumCounts(Retained)
       /\ {cats[k] : k \in DOMAIN cats} = Retained
       /\ \A j, k \in DOMAIN cats : j < k => StrLess(cats[j], cats[k])
       /\ \A k \in DOMAIN cats :
            LET n == FileCount(cats[k])
                start == CountBefore(cats, k)
            IN /\ \A j \in 1..n : obj.y[start + j] = k - 1 /\ obj.index[start + j] = j
               /\ Cardinality({i \in 1..N : obj.y[i] = k - 1}) = n
       /\ \A i \in 1..N : 0 <= obj.y[i] /\ obj.y[i] < Len(cats)
       /\ \A i \in 1..(N - 1) : obj.y[i] <= obj.y[i + 1]

C2_Witness ==
  /\ cls = "Caltech101"
  /\ IsOk
  /\ obj.categories = <<"a", "b">>
  /\ obj.y = <<0, 0, 1, 1, 1>>
  /\ obj.index = <<1, 2, 1, 2, 3>>

ValidTargetType == \A k \in DOMAIN ret.target_type : ret.target_type[k] \in Kinds

DownloadCalls == {"download_and_extract_archive", "extract_archive", "rmtree", "remove"}

NoDownloadIn(log) == \A k \in DOMAIN log : log[k] \notin DownloadCalls

\* C4 as stated: a Caltech101 constructor given a target_type outside
\* {"category", "annotation"} fails with a validation error before any
\* filesystem operation (directory creation, download, directory listing)
C4_InvalidTargetTypeTouchesNothing ==
  (cls = "Caltech101" /\ ret.op = "init" /\ ~ValidTargetType)
    => (ret.kind = "ValueError" /\ ret.line = 53 /\ calls = <<>>)

\* C4 amended: the constructor fails with the validation error, and at that
\* moment its only filesystem operation is the creation of the dataset root
\* directory (os.makedirs); no download and no directory listing has run, and
\* no attribute of the dataset has been assigned
C4_InvalidTargetTypeOnlyMakesRoot ==
  (cls = "Caltech101" /\ ret.op = "init" /\ ~ValidTargetType)
    => /\ ret.kind = "ValueError"
       /\ ret.line = 53
       /\ calls = <<"makedirs">>
       /\ fs.root
       /\ ~fs.zip /\ ~fs.folder
       /\ obj.status = "failed"
       /\ obj.attrs = {}

C4_Witness ==
  /\ cls = "Caltech101"
  /\ ret.op = "init"
  /\ ret.download
  /\ ret.target_type = <<"category", "segmentation">>
  /\ ret.kind = "ValueError"
  /\ ~fs.img.exists
  /\ calls = <<"makedirs">>

\* C5: download() is idempotent: when the top-level image directory exists,
\* download() returns without a download, an extraction or a removal and the
\* disk is unchanged, also when the constructor calls it
C5_DownloadIdempotent ==
  [][/\ (IsOk /\ fs.img.exists /\ ret'.op = "download")
          => (fs' = fs /\ calls' = <<>> /\ ret'.kind = "ok")
     /\ (obj.status = "none" /\ fs.img.exists /\ ret'.op = "init")
          => (fs' = fs /\ NoDownloadIn(calls'))]_vars

C5_Witness ==
  /\ cls = "Caltech256"
  /\ IsOk
  /\ fs.zip
  /\ ret.op = "download"
  /\ ret.kind = "ok"
  /\ calls = <<>>

\* C6: when the top-level image directory does not exist at the integrity
\* check, construction fails with the RuntimeError of lines 59 / 199 and no
\* category list or sample index is built; without download=True the
\* constructor never fetches
C6_MissingDirectoryFails ==
  /\ (ret.op = "init" /\ ~fs.img.exists /\ ValidTargetType /\ ret.kind # "URLError")
       => /\ ret.kind = "RuntimeError"
          /\ ret.line = (IF cls = "Caltech101" THEN 59 ELSE 199)
          /\ obj.status = "failed"
          /\ obj.attrs \cap {"categories", "annotation_categories", "index", "y"} = {}
          /\ obj.categories = <<>> /\ obj.index = <<>> /\ obj.y = <<>>
  /\ (ret.op = "init" /\ ~ret.download)
       => (NoDownloadIn(calls) /\ ~fs.zip /\ ~fs.folder)

C6_Witness ==
  /\ cls = "Caltech101"
  /\ ret.op = "init"
  /\ ~ret.download
  /\ ret.target_type = <<"annotation">>
  /\ ret.kind = "RuntimeError"
  /\ ~fs.img.exists

\* C7: Caltech101 construction completes for every set of sub-directories
\* of 101_ObjectCategories, and the category list is the sorted listing
\* without BACKGROUND_Google, whether or not that folder is present
C7_SentinelRemovedIfPresent ==
  (cls = "Caltech101" /\ ret.op = "init" /\ fs.img.exists /\ ValidTargetType
     /\ ret.kind # "URLError")
    => /\ ret.kind = "ok"
       /\ {obj.categories[k] : k \in DOMAIN obj.categories}
            = DOMAIN fs.img.dirs \ {Sentinel}
       /\ \A j, k \in DOMAIN obj.categories :
            j < k => StrLess(obj.categories[j], obj.categories[k])

RequestedKinds == {obj.target_type[k] : k \in DOMAIN obj.target_type}

\* C8 as stated: the target is an ordered pair in request order when both
\* kinds are requested and the single value when a single kind is requested
C8_ShapeByRequestedKinds ==
  (cls = "Caltech101" /\ IsOk /\ ret.op = "getitem" /\ ret.kind = "ok")
    => /\ RequestedKinds = Kinds =>
            /\ ret.target.tuple
            /\ Len(ret.target.items) = 2
            /\ \A k \in DOMAIN ret.target.items :
                 ret.target.items[k].kind = obj.target_type[k]
       /\ Cardinality(RequestedKinds) = 1 =>
            /\ ~ret.target.tuple
            /\ Len(ret.target.items) = 1

\* C8 amended: the shape follows the number of elements of target_type: with
\* more than one element the target is a tuple with one component per element
\* in list order, with exactly one element it is that single value; the
\* category component is y[i]; Caltech256 returns the class id y[i] only
C8_ShapeByTargetTypeLength ==
  (IsOk /\ ret.op = "getitem" /\ ret.kind = "ok")
    => LET items == ret.target.items
           yi == obj.y[Position(ret.arg)]
       IN IF cls = "Caltech101"
          THEN /\ ret.target.tuple = (Len(obj.target_type) > 1)
               /\ Len(items) = Len(obj.target_type)
               /\ \A k \in DOMAIN items :
                    /\ items[k].kind = obj.target_type[k]
                    /\ items[k].y = yi
                    /\ (items[k].kind = "annotation") = (items[k].path # NoPath)
          ELSE /\ ~ret.target.tuple
               /\ items = <<[kind |-> "category", y |-> yi, path |-> NoPath]>>

C8_Witness ==
  /\ cls = "Caltech101"
  /\ IsOk
  /\ obj.target_type = <<"annotation", "category">>
  /\ ret.op = "getitem"
  /\ ret.kind = "ok"
  /\ ret.arg = 2
  /\ ret.target.tuple
  /\ ret.target.items[2].y = 1

RECURSIVE DecimalValue(_)
DecimalValue(d) ==
  IF d = <<>> THEN 0 ELSE 10 * DecimalValue(SubSeq(d, 1, Len(d) - 1)) + d[Len(d)]

AnnotationFolder(c) ==
  IF c = "Faces" THEN "Faces_2"
  ELSE IF c = "Faces_easy" THEN "Faces_3"
  ELSE IF c = "Motorbikes" THEN "Motorbikes_16"
  ELSE IF c = "airplanes" THEN "Airplanes_Side_2"
  ELSE c

\* C9: in Caltech101 the image path uses the folder categories[y[i]] and the
\* annotation path the folder annotation_categories[y[i]], which renames
\* Faces, Faces_easy, Motorbikes and airplanes and keeps every other name;
\* both paths carry the ordinal index[i]
C9_AnnotationFolderRemap ==
  (cls = "Caltech101" /\ IsOk) =>
    /\ Len(obj.annotation_categories) = Len(obj.categories)
    /\ \A k \in DOMAIN obj.categories :
         obj.annotation_categories[k] = AnnotationFolder(obj.categories[k])
    /\ (ret.op = "getitem" /\ ret.kind = "ok") =>
         LET pos == Position(ret.arg)
             yi == obj.y[pos]
         IN /\ ret.img[1] = "101_ObjectCategories"
            /\ ret.img[2] = obj.categories[yi + 1]
            /\ Len(ret.img[4]) = 4
            /\ DecimalValue(ret.img[4]) = obj.index[pos]
            /\ \A k \in DOMAIN ret.target.items :
                 ret.target.items[k].kind = "annotation" =>
                   LET path == ret.target.items[k].path
                   IN /\ path[1] = "Annotations"
                      /\ path[2] = AnnotationFolder(obj.categories[yi + 1])
                      /\ path[2] = obj.annotation_categories[yi + 1]
                      /\ path[4] = ret.img[4]

C9_Witness ==
  /\ cls = "Caltech101"
  /\ IsOk
  /\ ret.op = "getitem"
  /\ ret.kind = "ok"
  /\ ret.img[2] = "Faces"
  /\ \E k \in DOMAIN ret.target.items :
       /\ ret.target.items[k].kind = "annotation"
       /\ ret.target.items[k].path[2] = "Faces_2"
  /\ \E k \in DOMAIN obj.categories : obj.categories[k] = "airplanes"

\* C10: categories, annotation_categories, index and y are left unchanged by
\* every operation on a constructed dataset, failing calls included, and so
\* is the value of __len__
C10_IndexFrozenAfterConstruction ==
  [][IsOk =>
       /\ obj'.categories = obj.categories
       /\ obj'.annotation_categories = obj.annotation_categories
       /\ obj'.index = obj.index
       /\ obj'.y = obj.y
       /\ obj'.status = "ok"
       /\ Len(obj'.index) = DatasetLen]_vars

C10_Witness ==
  /\ IsOk
  /\ Len(obj.index) >= 2
  /\ ret.op = "getitem"
  /\ ret.kind = "FileNotFoundError"

====
